---- MODULE Spec2Model ----
(***************************************************************************)
(* Model of quill's backend worker (src/quill/src/detail/BackendWorker.cpp):*)
(* the run()/stop() lifecycle, the worker thread's start-up, its main loop  *)
(* and drain loop, and the k-way minimum-timestamp merge step               *)
(* _process_record over the per-thread SPSC queues ("lanes").               *)
(*                                                                         *)
(* Threads of the model: NumCallers application threads that call run() and *)
(* stop(), one producer per lane that stamps and pushes records, and the    *)
(* backend worker thread.  Every shared-memory access of the code is one    *)
(* step, so the interleavings of the model are those of the program.        *)
(***************************************************************************)
EXTENDS Integers, Sequences, FiniteSets, TLC

\* ---- bounds of the model ------------------------------------------------
NumLanes == 2       \* producer threads, each with one queue
NumCallers == 2     \* application threads calling run() and stop()
MaxPush == 3        \* records pushed in one behaviour

\* std::numeric_limits<uint64_t>::max() of line 190.  Timestamps keep the
\* shape of an unsigned integer type, 0 .. UINT64_MAX, at width 2.
UINT64_MAX == 3

Lanes == 1..NumLanes
Callers == 1..NumCallers
Timestamps == 0..UINT64_MAX

\* A Handle is <<>> (invalid: is_valid() is false) or <<l>>, a view of the
\* head record of lane l.
NoHandle == <<>>
Handles == {NoHandle} \cup {<<l>> : l \in Lanes}

Record(l, t) == [lane |-> l, ts |-> t]

VARIABLES
  is_running,            \* _is_running
  once_flag,             \* _start_init_once_flag: "fresh", "active", "done"
  worker_thread,         \* _backend_worker_thread: "empty" or "joinable"
  pc,                    \* position of each application thread
  epc,                   \* position of the backend worker thread
  phase,                 \* caller of _process_record: "main_loop" or "exit"
  registry,              \* ThreadContextCollection: the lanes registered, in order
  queue,                 \* queue[l]: timestamps of the records in lane l, head first
  reserved,              \* reserved[l]: a valid Handle on lane l's head is outstanding
  clock,                 \* the counter the producers read
  stamped,               \* stamped[l]: <<t>> once producer l created a record, before its push
  cached_thread_contexts,\* the snapshot the running _process_record iterates
  idx,                   \* position of the for loop of line 194
  min_rdtsc,
  desired_record_handle,
  observed_record_handle,
  \* ---- history (never read by an action's guard or effect) ----
  pushed,                \* pushed[l]: the timestamps producer l pushed, in order
  dispatched,            \* records in the order backend_process received them
  peeked,                \* lanes whose try_pop gave a valid Handle in the running call
  noop_run,              \* some run() returned through call_once without running the body
  pre_stop,              \* pushed, as it was when the loop head read is_running() = false
  threads_created,       \* std::thread objects run() constructed
  crashed                \* "no", or why std::terminate was called

vars == <<is_running, once_flag, worker_thread, pc, epc, phase,
          registry, queue, reserved, clock, stamped, cached_thread_contexts,
          idx, min_rdtsc, desired_record_handle, observed_record_handle,
          pushed, dispatched, peeked, noop_run, pre_stop, threads_created,
          crashed>>

lifecycleVars == <<is_running, once_flag, worker_thread>>
callerVars == <<pc, noop_run>>
producerVars == <<registry, clock, stamped, pushed>>
scanVars == <<cached_thread_contexts, idx, min_rdtsc, desired_record_handle,
              observed_record_handle>>
engineVars == <<epc, phase, queue, reserved, dispatched, peeked, pre_stop>>

\* ---- helpers --------------------------------------------------------------
RECURSIVE SeqToSet(_)
SeqToSet(s) == IF s = <<>> THEN {} ELSE {Head(s)} \cup SeqToSet(Tail(s))

RECURSIVE Filter(_, _)
\* the timestamps of the records of lane l in the record sequence s, in order
Filter(s, l) ==
  IF s = <<>> THEN <<>>
  ELSE IF Head(s).lane = l THEN <<Head(s).ts>> \o Filter(Tail(s), l)
       ELSE Filter(Tail(s), l)

IsPrefix(s, t) == Len(s) <= Len(t) /\ SubSeq(t, 1, Len(s)) = s

\* the last timestamp producer l has taken, -1 before its first
LastStamp(l) ==
  IF stamped[l] # <<>> THEN stamped[l][1]
  ELSE IF pushed[l] = <<>> THEN -1 ELSE pushed[l][Len(pushed[l])]

RECURSIVE SumLen(_, _)
SumLen(f, n) == IF n = 0 THEN 0 ELSE Len(f[n]) + SumLen(f, n - 1)

\* records created so far: pushed, or stamped and about to be pushed
NumCreated ==
  SumLen(pushed, NumLanes) + Cardinality({k \in Lanes : stamped[k] # <<>>})

Init ==
  /\ is_running = FALSE
  /\ once_flag = "fresh"
  /\ worker_thread = "empty"
  /\ pc = [c \in Callers |-> "idle"]
  /\ epc = "none"
  /\ phase = "main_loop"
  /\ registry = <<>>
  /\ queue = [l \in Lanes |-> <<>>]
  /\ reserved = [l \in Lanes |-> FALSE]
  /\ clock = 0
  /\ stamped = [l \in Lanes |-> <<>>]
  /\ cached_thread_contexts = <<>>
  /\ idx = 1
  /\ min_rdtsc = UINT64_MAX
  /\ desired_record_handle = NoHandle
  /\ observed_record_handle = NoHandle
  /\ pushed = [l \in Lanes |-> <<>>]
  /\ dispatched = <<>>
  /\ peeked = {}
  /\ noop_run = FALSE
  /\ pre_stop = [l \in Lanes |-> <<>>]
  /\ threads_created = 0
  /\ crashed = "no"


\* ---- producers ------------------------------------------------------------
\* First log call of a new thread: its lane joins the registry.  Lanes are
\* numbered in the order they register.
Register(l) ==
  /\ crashed = "no"
  /\ l = Len(registry) + 1
  /\ registry' = Append(registry, l)
  /\ UNCHANGED <<clock, stamped, pushed>>
  /\ UNCHANGED <<lifecycleVars, callerVars, scanVars, engineVars,
                 threads_created, crashed>>

\* Producer l creates a record: it reads the counter, which has advanced to
\* some t since the last read; a producer's own timestamps strictly increase.
Stamp(l) ==
  /\ crashed = "no"
  /\ l \in SeqToSet(registry)
  /\ stamped[l] = <<>>
  /\ NumCreated < MaxPush
  /\ \E t \in clock..UINT64_MAX :
       /\ t > LastStamp(l)
       /\ clock' = t
       /\ stamped' = [stamped EXCEPT ![l] = <<t>>]
  /\ UNCHANGED <<registry, pushed>>
  /\ UNCHANGED <<lifecycleVars, callerVars, scanVars, engineVars,
                 threads_created, crashed>>

\* Producer l publishes the record it created at the tail of its lane.
Push(l) ==
  /\ crashed = "no"
  /\ stamped[l] # <<>>
  /\ queue' = [queue EXCEPT ![l] = Append(@, stamped[l][1])]
  /\ pushed' = [pushed EXCEPT ![l] = Append(@, stamped[l][1])]
  /\ stamped' = [stamped EXCEPT ![l] = <<>>]
  /\ UNCHANGED <<registry, clock>>
  /\ UNCHANGED <<lifecycleVars, callerVars, scanVars, epc, phase, reserved,
                 dispatched, peeked, pre_stop, threads_created, crashed>>

\* ---- run() ------------------------------------------------------------------
\* std::call_once: the callable runs when the flag has not been taken; a call
\* that finds an execution in progress waits for it; a call that finds the
\* flag set returns at once.
\* run() without the once flag: every call runs the body
CallOnceUnguarded == TRUE

CallOnceMayEnter == once_flag = "fresh"

CallOnceReturns == once_flag = "done"

RunCall(c) ==
  /\ crashed = "no"
  /\ pc[c] = "idle"
  /\ noop_run' = noop_run
  /\ pc' = [pc EXCEPT ![c] = "run"]
  /\ UNCHANGED <<lifecycleVars, producerVars, scanVars, engineVars,
                 threads_created, crashed>>

\* lines 50-57: enter the call_once body and store _is_running = true
RunEnterOnce(c) ==
  /\ crashed = "no"
  /\ pc[c] = "run"
  /\ CallOnceMayEnter
  /\ once_flag' = "active"
  /\ is_running' = TRUE
  /\ noop_run' = noop_run
  /\ pc' = [pc EXCEPT ![c] = "run_spawn"]
  /\ UNCHANGED <<worker_thread, producerVars, scanVars,
                 engineVars, threads_created, crashed>>

\* line 59: std::thread worker(...) starts the backend worker thread
RunSpawn(c) ==
  /\ crashed = "no"
  /\ pc[c] = "run_spawn"
  /\ epc' = "set_cpu_affinity"
  /\ threads_created' = threads_created + 1
  /\ noop_run' = noop_run
  /\ pc' = [pc EXCEPT ![c] = "run_swap"]
  /\ UNCHANGED <<lifecycleVars, producerVars, scanVars, phase, queue,
                 reserved, dispatched, peeked, pre_stop, crashed>>

\* lines 86-89: _backend_worker_thread.swap(worker); call_once completes
RunSwap(c) ==
  /\ crashed = "no"
  /\ pc[c] = "run_swap"
  /\ worker_thread' = "joinable"
  /\ once_flag' = "done"
  /\ noop_run' = noop_run
  /\ pc' = [pc EXCEPT ![c] = "idle"]
  /\ UNCHANGED <<is_running, producerVars, scanVars,
                 engineVars, threads_created, crashed>>

\* a later run(): call_once finds the flag set and returns
RunNoop(c) ==
  /\ crashed = "no"
  /\ pc[c] = "run"
  /\ CallOnceReturns
  /\ ~CallOnceMayEnter
  /\ noop_run' = TRUE
  /\ pc' = [pc EXCEPT ![c] = "idle"]
  /\ UNCHANGED <<lifecycleVars, producerVars, scanVars, engineVars,
                 threads_created, crashed>>

\* ---- stop() -----------------------------------------------------------------
\* line 95: _is_running.store(false)
StopCall(c) ==
  /\ crashed = "no"
  /\ pc[c] = "idle"
  /\ is_running' = FALSE
  /\ noop_run' = noop_run
  /\ pc' = [pc EXCEPT ![c] = "stop_check"]
  /\ UNCHANGED <<once_flag, worker_thread, producerVars,
                 scanVars, engineVars, threads_created, crashed>>

\* line 98: if (_backend_worker_thread.joinable())
StopCheck(c) ==
  /\ crashed = "no"
  /\ pc[c] = "stop_check"
  /\ noop_run' = noop_run
  /\ pc' = [pc EXCEPT ![c] =
              IF worker_thread = "joinable" THEN "stop_join" ELSE "idle"]
  /\ UNCHANGED <<lifecycleVars, producerVars, scanVars, engineVars,
                 threads_created, crashed>>

\* line 100: join() returns once the worker thread has finished; the thread
\* object is not joinable afterwards
StopJoin(c) ==
  /\ crashed = "no"
  /\ pc[c] = "stop_join"
  /\ worker_thread = "joinable"
  /\ epc = "terminated"
  /\ worker_thread' = "empty"
  /\ noop_run' = noop_run
  /\ pc' = [pc EXCEPT ![c] = "idle"]
  /\ UNCHANGED <<is_running, once_flag, producerVars, scanVars,
                 engineVars, threads_created, crashed>>

\* line 100 reached by a second caller: join() on a thread object that another
\* call has joined.  The race on the thread object is undefined; the outcomes
\* modelled are the std::system_error that leaves the noexcept stop() through
\* std::terminate, and a plain return.
StopJoinAgain(c) ==
  /\ crashed = "no"
  /\ pc[c] = "stop_join"
  /\ worker_thread = "empty"
  /\ noop_run' = noop_run
  /\ \/ /\ crashed' = "join"
        /\ pc' = pc
     \/ /\ pc' = [pc EXCEPT ![c] = "idle"]
        /\ crashed' = crashed
  /\ UNCHANGED <<lifecycleVars, producerVars, scanVars, engineVars,
                 threads_created>>

\* ---- the SPSC queue's consumer side ---------------------------------------
\* try_pop(): a Handle on the head record when the lane holds one, an invalid
\* Handle otherwise.  The record stays in the lane.
TryPop(l) == IF queue[l] # <<>> THEN <<l>> ELSE NoHandle

\* A Handle that is destroyed or overwritten while valid removes its record
\* from the lane; a released (invalid) Handle removes nothing.
HandleDestroyed(q, h) ==
  IF h # NoHandle THEN [q EXCEPT ![h[1]] = Tail(@)] ELSE q

\* the slot a Handle was looking at is no longer reserved, whichever way the
\* Handle ended
Unreserve(r, h) == IF h # NoHandle THEN [r EXCEPT ![h[1]] = FALSE] ELSE r

\* Handle::data()->timestamp()
HandleTimestamp(h) == Head(queue[h[1]])

\* ---- worker thread: start-up (lines 59-74) ---------------------------------
\* line 61 with the sentinel configured, or _set_cpu_affinity() succeeding
SetCpuAffinityOk ==
  /\ crashed = "no"
  /\ epc = "set_cpu_affinity"
  /\ epc' = "set_thread_name"
  /\ UNCHANGED <<lifecycleVars, callerVars, producerVars, scanVars, phase,
                 queue, reserved, dispatched, peeked, pre_stop,
                 threads_created, crashed>>

\* lines 125-130: sched_setaffinity returns -1 and std::system_error is thrown
\* on the worker thread, where nothing catches it: std::terminate
SetCpuAffinityThrows ==
  /\ crashed = "no"
  /\ epc = "set_cpu_affinity"
  /\ crashed' = "setup"
  /\ UNCHANGED <<lifecycleVars, callerVars, producerVars, scanVars,
                 engineVars, threads_created>>

\* lines 135-154 succeeding
SetThreadNameOk ==
  /\ crashed = "no"
  /\ epc = "set_thread_name"
  /\ epc' = "loop_head"
  /\ UNCHANGED <<lifecycleVars, callerVars, producerVars, scanVars, phase,
                 queue, reserved, dispatched, peeked, pre_stop,
                 threads_created, crashed>>

\* lines 141-152: the call fails and the exception is thrown on the worker
\* thread: std::terminate
SetThreadNameThrows ==
  /\ crashed = "no"
  /\ epc = "set_thread_name"
  /\ crashed' = "setup"
  /\ UNCHANGED <<lifecycleVars, callerVars, producerVars, scanVars,
                 engineVars, threads_created>>

\* ---- worker thread: the loops ----------------------------------------------
\* line 77: while (is_running())
LoopCondition == is_running

LoopHead ==
  /\ crashed = "no"
  /\ epc = "loop_head"
  /\ IF LoopCondition
       THEN /\ epc' = "main_loop"
            /\ pre_stop' = pre_stop
       ELSE /\ epc' = "exit"
            /\ pre_stop' = pushed
  /\ UNCHANGED <<lifecycleVars, callerVars, producerVars, scanVars, phase,
                 queue, reserved, dispatched, peeked, threads_created,
                 crashed>>

\* backend_thread_contexts_cache(): the lanes registered so far, in order
BackendThreadContextsCache == registry

\* lines 190-192: the locals of a call of _process_record
ProcessRecordEntry ==
  /\ idx' = 1
  /\ min_rdtsc' = UINT64_MAX
  /\ desired_record_handle' = NoHandle
  /\ observed_record_handle' = NoHandle

\* lines 157-163: _main_loop takes the snapshot and calls _process_record
MainLoop ==
  /\ crashed = "no"
  /\ epc = "main_loop"
  /\ cached_thread_contexts' = BackendThreadContextsCache
  /\ phase' = "main_loop"
  /\ ProcessRecordEntry
  /\ epc' = "for_next"
  /\ UNCHANGED <<lifecycleVars, callerVars, producerVars, queue, reserved,
                 dispatched, peeked, pre_stop, threads_created, crashed>>

\* lines 173-179: _exit takes the snapshot once and calls _process_record
Exit ==
  /\ crashed = "no"
  /\ epc = "exit"
  /\ cached_thread_contexts' = BackendThreadContextsCache
  /\ phase' = "exit"
  /\ ProcessRecordEntry
  /\ epc' = "for_next"
  /\ UNCHANGED <<lifecycleVars, callerVars, producerVars, queue, reserved,
                 dispatched, peeked, pre_stop, threads_created, crashed>>

\* lines 165-169: the idle sleep of _main_loop
Sleep ==
  /\ crashed = "no"
  /\ epc = "sleep"
  /\ epc' = "loop_head"
  /\ UNCHANGED <<lifecycleVars, callerVars, producerVars, scanVars, phase,
                 queue, reserved, dispatched, peeked, pre_stop,
                 threads_created, crashed>>

\* ---- worker thread: _process_record (lines 186-241) ------------------------
\* line 201: observed_record_handle.data()->timestamp() < min_rdtsc
IsNewMin(ts, m) == ts < m

\* a release() left out: the Handle stays valid
ReleaseSkipped(h) == h

\* line 209: desired_record_handle.release(); the Handle is invalid afterwards
ReleaseDesired(h) == NoHandle

\* line 221: observed_record_handle.release(); the Handle is invalid afterwards
ReleaseObserved(h) == NoHandle

\* lines 194-199: the next lane of the snapshot is peeked
ForTryPop ==
  /\ crashed = "no"
  /\ epc = "for_next"
  /\ idx <= Len(cached_thread_contexts)
  /\ LET l == cached_thread_contexts[idx]
         h == TryPop(l)
     IN /\ observed_record_handle' = h
        /\ IF h # NoHandle
             THEN /\ reserved' = [reserved EXCEPT ![l] = TRUE]
                  /\ peeked' = peeked \cup {l}
                  /\ epc' = "compare"
                  /\ idx' = idx
             ELSE /\ reserved' = reserved
                  /\ peeked' = peeked
                  /\ epc' = epc
                  /\ idx' = idx + 1
  /\ UNCHANGED <<cached_thread_contexts, min_rdtsc, desired_record_handle>>
  /\ UNCHANGED <<lifecycleVars, callerVars, producerVars, phase, queue,
                 dispatched, pre_stop, threads_created, crashed>>

\* lines 201-216: a new minimum; the Handle held so far is released and the
\* observed one is moved into its place
CompareNewMin ==
  /\ crashed = "no"
  /\ epc = "compare"
  /\ IsNewMin(HandleTimestamp(observed_record_handle), min_rdtsc)
  /\ min_rdtsc' = HandleTimestamp(observed_record_handle)
  /\ queue' = HandleDestroyed(queue, ReleaseDesired(desired_record_handle))
  /\ reserved' = Unreserve(reserved, desired_record_handle)
  /\ desired_record_handle' = observed_record_handle
  /\ observed_record_handle' = NoHandle
  /\ idx' = idx + 1
  /\ epc' = "for_next"
  /\ UNCHANGED <<cached_thread_contexts>>
  /\ UNCHANGED <<lifecycleVars, callerVars, producerVars, phase, dispatched, peeked,
                 pre_stop, threads_created, crashed>>

\* the else branch with the observed Handle kept alive past its iteration,
\* neither released nor destroyed
CompareKeepsObserved ==
  /\ crashed = "no"
  /\ epc = "compare"
  /\ ~IsNewMin(HandleTimestamp(observed_record_handle), min_rdtsc)
  /\ idx' = idx + 1
  /\ epc' = "for_next"
  /\ UNCHANGED <<cached_thread_contexts, min_rdtsc, desired_record_handle,
                 observed_record_handle, queue, reserved>>
  /\ UNCHANGED <<lifecycleVars, callerVars, producerVars, phase, dispatched, peeked,
                 pre_stop, threads_created, crashed>>

\* lines 217-223: not a new minimum; the observed Handle is released before it
\* goes out of scope at the end of the iteration
CompareRelease ==
  /\ crashed = "no"
  /\ epc = "compare"
  /\ ~IsNewMin(HandleTimestamp(observed_record_handle), min_rdtsc)
  /\ queue' = HandleDestroyed(queue, ReleaseObserved(observed_record_handle))
  /\ reserved' = Unreserve(reserved, observed_record_handle)
  /\ observed_record_handle' = NoHandle
  /\ idx' = idx + 1
  /\ epc' = "for_next"
  /\ UNCHANGED <<cached_thread_contexts, min_rdtsc, desired_record_handle>>
  /\ UNCHANGED <<lifecycleVars, callerVars, producerVars, phase, dispatched, peeked,
                 pre_stop, threads_created, crashed>>

\* _main_loop without its sleep_for
MainLoopNeverSleeps(processed) == "loop_head"

\* lines 163-169: _main_loop sleeps after an idle step and returns to the loop
\* head of run()
MainLoopAfter(processed) == IF processed THEN "loop_head" ELSE "sleep"

\* lines 179-183: _exit calls _process_record again while it returns true; the
\* thread function ends when it returns false
ExitAfter(processed) == IF processed THEN "for_next" ELSE "terminated"

AfterReturn(processed) ==
  IF phase = "main_loop" THEN MainLoopAfter(processed) ELSE ExitAfter(processed)

\* lines 226-230: no valid Handle is held: return false
ReturnFalse ==
  /\ crashed = "no"
  /\ epc = "for_next"
  /\ idx > Len(cached_thread_contexts)
  /\ desired_record_handle = NoHandle
  /\ epc' = AfterReturn(FALSE)
  /\ peeked' = {}
  /\ UNCHANGED <<lifecycleVars, callerVars, producerVars, scanVars, phase,
                 queue, reserved, dispatched, pre_stop, threads_created,
                 crashed>>

\* lines 237-241: the Handle that holds the dispatched record goes out of
\* scope and removes the record from its lane; _process_record returns true
CommitDesired ==
  /\ crashed = "no"
  /\ epc = "for_next"
  /\ idx > Len(cached_thread_contexts)
  /\ desired_record_handle # NoHandle
  /\ queue' = HandleDestroyed(queue, desired_record_handle)
  /\ reserved' = Unreserve(reserved, desired_record_handle)
  /\ epc' = AfterReturn(TRUE)
  /\ peeked' = {}
  /\ IF AfterReturn(TRUE) = "for_next"
       THEN ProcessRecordEntry
       ELSE /\ desired_record_handle' = NoHandle
            /\ UNCHANGED <<idx, min_rdtsc, observed_record_handle>>
  /\ UNCHANGED <<cached_thread_contexts>>
  /\ UNCHANGED <<lifecycleVars, callerVars, producerVars, phase, pre_stop,
                 threads_created, crashed>>

\* lines 232-241: the held record is handed to backend_process, then the
\* Handle goes out of scope and removes it from its lane: return true
ProcessDesired ==
  /\ CommitDesired
  /\ dispatched' = Append(dispatched,
                     Record(desired_record_handle[1],
                            HandleTimestamp(desired_record_handle)))

\* ---- the system ----------------------------------------------------------------
\* Every action is guarded by crashed = "no": after std::terminate nothing runs.
Next ==
  \/ \E l \in Lanes : Register(l)
  \/ \E l \in Lanes : Stamp(l)
  \/ \E l \in Lanes : Push(l)
  \/ \E c \in Callers : RunCall(c)
  \/ \E c \in Callers : RunEnterOnce(c)
  \/ \E c \in Callers : RunSpawn(c)
  \/ \E c \in Callers : RunSwap(c)
  \/ \E c \in Callers : RunNoop(c)
  \/ \E c \in Callers : StopCall(c)
  \/ \E c \in Callers : StopCheck(c)
  \/ \E c \in Callers : StopJoin(c)
  \/ \E c \in Callers : StopJoinAgain(c)
  \/ SetCpuAffinityOk
  \/ SetCpuAffinityThrows
  \/ SetThreadNameOk
  \/ SetThreadNameThrows
  \/ LoopHead
  \/ MainLoop
  \/ Exit
  \/ Sleep
  \/ ForTryPop
  \/ CompareNewMin
  \/ CompareRelease
  \/ ReturnFalse
  \/ ProcessDesired

Spec == Init /\ [][Next]_vars

TypeOK ==
  /\ is_running \in BOOLEAN
  /\ once_flag \in {"fresh", "active", "done"}
  /\ worker_thread \in {"empty", "joinable"}
  /\ pc \in [Callers -> {"idle", "run", "run_spawn", "run_swap", "run_error",
                         "stop_check", "stop_join"}]
  /\ epc \in {"none", "set_cpu_affinity", "set_thread_name", "loop_head",
              "main_loop", "exit", "for_next", "compare", "sleep", "terminated"}
  /\ phase \in {"main_loop", "exit"}
  /\ SeqToSet(registry) \subseteq Lanes
  /\ \A l \in Lanes : \A i \in 1..Len(queue[l]) : queue[l][i] \in Timestamps
  /\ reserved \in [Lanes -> BOOLEAN]
  /\ clock \in Timestamps
  /\ min_rdtsc \in Timestamps
  /\ desired_record_handle \in Handles
  /\ observed_record_handle \in Handles
  /\ crashed \in {"no", "setup", "join"}

\* ---- what the claims speak of ------------------------------------------------
\* every lane's records as dispatched, in dispatch order
DispatchedOf(l) == Filter(dispatched, l)

\* the worker thread has returned from _exit
Terminated == epc = "terminated"

\* the loop head has read is_running() = false
StopObserved == epc = "exit" \/ phase = "exit"

\* the running call of _process_record has finished its scan
ScanDone == epc = "for_next" /\ idx > Len(cached_thread_contexts)

\* C1 (P1 global order): the sequence of dispatched records is non-decreasing
\* in timestamp.
C1_GlobalOrder ==
  \A i, j \in 1..Len(dispatched) :
    i < j => dispatched[i].ts <= dispatched[j].ts

\* C2 (P2 exactly-once): no record is dispatched twice, and once the worker
\* thread has terminated with nothing pushed since it observed the stop
\* request (so nothing pushed after its final scan), every pushed record has
\* been dispatched and every lane is empty.
C2_ExactlyOnce ==
  /\ \A i, j \in 1..Len(dispatched) : i # j => dispatched[i] # dispatched[j]
  /\ (Terminated /\ pre_stop = pushed) =>
       \A l \in Lanes : queue[l] = <<>> /\ DispatchedOf(l) = pushed[l]

\* C3 (P6 drain-on-stop): when the worker thread has terminated, every record
\* pushed before it observed the stop request has been dispatched.
C3_DrainOnStop ==
  Terminated => \A l \in Lanes : IsPrefix(pre_stop[l], DispatchedOf(l))

\* the place of lane l in the snapshot the running call iterates
ScanPos(l) == CHOOSE i \in 1..Len(cached_thread_contexts) :
                cached_thread_contexts[i] = l

\* the step under way is the return of the running call of _process_record
ReturnStep == ScanDone /\ (epc' # epc \/ idx' # idx)

\* C4 (P4 peek non-destructiveness): a step removes a record from lane l only
\* when it is the final commit of the selected record, the head of l, which
\* the same step dispatches; every other step, a release of a peeked or
\* superseded head included, leaves the lane's records in place, the head first.
C4_PeekNonDestructive ==
  [][\A l \in Lanes :
       \/ /\ IsPrefix(queue[l], queue'[l])
          /\ (reserved[l] /\ ~reserved'[l]) =>
               (queue'[l] # <<>> /\ Head(queue'[l]) = Head(queue[l]))
       \/ /\ ScanDone
          /\ desired_record_handle = <<l>>
          /\ queue'[l] = Tail(queue[l])
          /\ dispatched' = Append(dispatched, Record(l, Head(queue[l])))
    ]_vars

\* C4's case: lane 1 was peeked first and became the running minimum, lane 2
\* superseded it, and lane 1's head is released and still in its lane.
C4_Witness ==
  /\ ScanDone
  /\ peeked = {1, 2}
  /\ desired_record_handle = <<2>>
  /\ ~reserved[1]
  /\ queue[1] # <<>>
  /\ Head(queue[2]) < Head(queue[1])
  /\ Head(queue[1]) < UINT64_MAX

\* C5 (P3 tie determinism): when lanes a and b were peeked with equal
\* timestamps that are the minimum of the step, a being the first such lane
\* of the scan order, the step dispatches a's record and leaves b's in place.
C5_TieDeterminism ==
  [][\A a, b \in peeked :
       ( /\ ReturnStep
         /\ ScanPos(a) < ScanPos(b)
         /\ Head(queue[a]) = Head(queue[b])
         /\ \A l \in peeked :
              /\ Head(queue[a]) <= Head(queue[l])
              /\ ScanPos(l) < ScanPos(a) => Head(queue[a]) < Head(queue[l]) )
       => /\ dispatched' = Append(dispatched, Record(a, Head(queue[a])))
          /\ IsPrefix(queue[b], queue'[b])
    ]_vars

\* C6 (per-producer FIFO): the records of a lane are dispatched in the order
\* they were pushed, none overtaking or skipping an earlier one.
C6_PerProducerFifo ==
  \A l \in Lanes : IsPrefix(DispatchedOf(l), pushed[l])

\* C6's case: two records of one producer dispatched, with another
\* producer's record in the dispatched sequence as well.
C6_Witness ==
  \E l \in Lanes :
    /\ Len(DispatchedOf(l)) >= 2
    /\ Len(dispatched) > Len(DispatchedOf(l))

\* caller c returns from stop() in the step under way
StopReturns(c) == pc[c] \in {"stop_check", "stop_join"} /\ pc'[c] = "idle"

\* a call of run() has entered the call_once body
RunEntered == once_flag # "fresh"

\* run() has reported a setup failure to its caller
SetupErrorSurfaced == \E c \in Callers : pc[c] = "run_error"

\* C7 (stop() blocks until termination): when a call of stop() returns and a
\* call of run() has entered its body, possibly on another thread and not yet
\* finished, the worker thread has terminated.
C7_StopBlocksUntilTerminated ==
  [][\A c \in Callers : (StopReturns(c) /\ RunEntered) => Terminated']_vars

\* C8 (stop() any number of times, from any threads): never have two calls of
\* stop() both passed the joinable check to join the worker thread, and no
\* call of stop() ends in std::terminate.
C8_JoinAtMostOnce ==
  /\ Cardinality({c \in Callers : pc[c] = "stop_join"}) <= 1
  /\ crashed # "join"

\* C9 (run() is idempotent): at most one worker thread is ever created, and a
\* call of run() that finds the once flag set returns without changing
\* anything but its own position.
C9_RunIdempotent ==
  [][/\ threads_created' <= 1
     /\ \A c \in Callers :
          (pc[c] = "run" /\ CallOnceReturns /\ pc'[c] # pc[c]) =>
            /\ pc'[c] = "idle"
            /\ UNCHANGED <<lifecycleVars, producerVars, scanVars, engineVars,
                           threads_created, crashed>>
    ]_vars

\* C9's case: the worker thread exists and is in a merge step, and a later
\* call of run() has returned through the call_once no-op path.
C9_Witness ==
  /\ noop_run
  /\ threads_created = 1
  /\ epc = "for_next"
  /\ \E c \in Callers : pc[c] = "run"

\* C10 (startup failure): when CPU placement or thread naming has failed,
\* is_running() is false, no record has been dispatched and run() has
\* reported the failure to its caller.
C10_StartupFailure ==
  crashed = "setup" =>
    (~is_running /\ dispatched = <<>> /\ SetupErrorSurfaced)

\* C11 (P5 idle backoff): in the main loop a merge step that found every lane
\* empty dispatches nothing, removes nothing and goes to the idle sleep; the
\* sleep is entered only from such an idle return and leads only to the loop
\* head, from where the next scan starts; a step that dispatched a record
\* returns to the loop head without sleeping.
C11_IdleBackoff ==
  [][/\ (ReturnStep /\ phase = "main_loop" /\ peeked = {}) =>
          (dispatched' = dispatched /\ queue' = queue /\ epc' = "sleep")
     /\ (ReturnStep /\ phase = "main_loop" /\ dispatched' # dispatched) =>
          epc' = "loop_head"
     /\ (epc' = "sleep" /\ epc # "sleep") =>
          (ReturnStep /\ phase = "main_loop" /\ dispatched' = dispatched)
     /\ (epc = "sleep" /\ epc' # "sleep") => epc' = "loop_head"
     /\ (epc = "loop_head" /\ epc' # "loop_head") =>
          epc' \in {"main_loop", "exit"}
     /\ (epc = "main_loop" /\ epc' # "main_loop") => epc' = "for_next"
    ]_vars

\* C11's case: records were dispatched, then a step of the main loop found
\* every lane empty and the worker is in its idle sleep.
C11_Witness ==
  /\ epc = "sleep"
  /\ phase = "main_loop"
  /\ dispatched # <<>>
  /\ cached_thread_contexts # <<>>
  /\ \A l \in Lanes : queue[l] = <<>>

\* ---- a quiescent run: the lanes are filled, nobody pushes -------------------
\* the sequences over Timestamps of length at most n, sorted
SortedSeqs(n) ==
  {s \in UNION {[1..k -> Timestamps] : k \in 0..n} :
     \A i \in 1..Len(s) : \A j \in 1..Len(s) : i < j => s[i] <= s[j]}

\* the clock value after the records of q were stamped: the largest timestamp
\* among them, the smallest timestamp when there is none
LatestStamp(q) ==
  CHOOSE t \in Timestamps :
    /\ \A l \in Lanes : \A i \in 1..Len(q[l]) : q[l][i] <= t
    /\ \A u \in Timestamps :
         (\A l \in Lanes : \A i \in 1..Len(q[l]) : q[l][i] <= u) => t <= u

\* run() has returned, the worker thread is at its loop head, every lane is
\* registered and holds records its producer pushed in timestamp order; the
\* producers and the application threads take no further step.
InitQuiescent ==
  /\ is_running = TRUE
  /\ once_flag = "done"
  /\ worker_thread = "joinable"
  /\ pc = [c \in Callers |-> "idle"]
  /\ epc = "loop_head"
  /\ phase = "main_loop"
  /\ registry = [i \in 1..NumLanes |-> i]
  /\ queue \in [Lanes -> SortedSeqs(MaxPush)]
  /\ SumLen(queue, NumLanes) <= MaxPush
  /\ reserved = [l \in Lanes |-> FALSE]
  /\ clock = LatestStamp(queue)
  /\ stamped = [l \in Lanes |-> <<>>]
  /\ cached_thread_contexts = <<>>
  /\ idx = 1
  /\ min_rdtsc = UINT64_MAX
  /\ desired_record_handle = NoHandle
  /\ observed_record_handle = NoHandle
  /\ pushed = queue
  /\ dispatched = <<>>
  /\ peeked = {}
  /\ noop_run = FALSE
  /\ pre_stop = [l \in Lanes |-> <<>>]
  /\ threads_created = 1
  /\ crashed = "no"

NextQuiescent ==
  \/ LoopHead
  \/ MainLoop
  \/ Sleep
  \/ ForTryPop
  \/ CompareNewMin
  \/ CompareRelease
  \/ ReturnFalse
  \/ ProcessDesired

SpecQuiescent == InitQuiescent /\ [][NextQuiescent]_vars

\* lane l holds a record and no lane's head is smaller than its head
HoldsSmallestHead(l) ==
  /\ queue[l] # <<>>
  /\ \A k \in Lanes : queue[k] # <<>> => Head(queue[l]) <= Head(queue[k])

\* C12 (quiescent merge): with sorted lanes and no pushes, every merge step
\* dispatches and removes a record with the smallest head timestamp of all
\* lanes, the dispatched sequence is non-decreasing in timestamp, and a step
\* reports idle exactly when every lane is empty, all records of every lane
\* having been dispatched by then.
C12_QuiescentMerge ==
  /\ [](C1_GlobalOrder /\ (epc = "sleep" => \A l \in Lanes : DispatchedOf(l) = pushed[l]))
  /\ [][ReturnStep =>
          IF \A l \in Lanes : queue[l] = <<>>
            THEN dispatched' = dispatched /\ epc' = "sleep"
            ELSE \E l \in Lanes :
                   /\ HoldsSmallestHead(l)
                   /\ dispatched' = Append(dispatched, Record(l, Head(queue[l])))
                   /\ queue' = [queue EXCEPT ![l] = Tail(@)]
       ]_vars

\* ---- lifecycle ---------------------------------------------------------------
\* The engine's lifecycle state as the code's variables give it: NotStarted
\* until a run() enters the call_once body, Running while _is_running is set,
\* StopRequested once stop() has cleared it, Draining from the loop head's
\* read of false, Terminated when the thread function has returned.
Lifecycle ==
  IF Terminated THEN "Terminated"
  ELSE IF StopObserved THEN "Draining"
  ELSE IF once_flag = "fresh" THEN "NotStarted"
  ELSE IF is_running THEN "Running"
  ELSE "StopRequested"

\* C13 (stop() when not running is a no-op): a stop() made before any run()
\* or after termination returns without blocking and leaves the lifecycle
\* state unchanged.  _is_running is set only by the run() that leaves
\* NotStarted, so a stop() that is still in progress while the flag is set was
\* made in NotStarted: it never waits in join(), and no stop() step taken in
\* NotStarted or Terminated changes the lifecycle state or ends the process.
C13_StopWhenNotRunningNoop ==
  /\ [](\A c \in Callers : pc[c] = "stop_join" => ~is_running)
  /\ [][\A c \in Callers :
          (/\ pc[c] \in {"idle", "stop_check", "stop_join"}
           /\ pc'[c] \in {"stop_check", "stop_join", "idle"}
           /\ pc'[c] # pc[c]
           /\ Lifecycle \in {"NotStarted", "Terminated"})
          => Lifecycle' = Lifecycle
       ]_vars

LifecycleOrder ==
  <<"NotStarted", "Running", "StopRequested", "Draining", "Terminated">>

\* the position of lifecycle state s in the order
LifecycleRank(s) == CHOOSE i \in DOMAIN LifecycleOrder : LifecycleOrder[i] = s

\* C14 (lifecycle order): every step leaves the lifecycle state where it is
\* or moves it to the next state of NotStarted, Running, StopRequested,
\* Draining, Terminated; once Terminated, no step (a later run() included)
\* starts an engine thread, sets the run flag or moves the thread function.
C14_LifecycleOrder ==
  [][/\ LifecycleRank(Lifecycle') >= LifecycleRank(Lifecycle)
     /\ LifecycleRank(Lifecycle') <= LifecycleRank(Lifecycle) + 1
     /\ Terminated =>
          /\ threads_created' = threads_created
          /\ is_running' = is_running
          /\ epc' = epc
    ]_vars

\* a run() is in progress on a terminated engine that ran once
C14_Witness ==
  /\ Lifecycle = "Terminated"
  /\ threads_created = 1
  /\ \E c \in Callers : pc[c] = "run"

\* the running call of _process_record returns true / false in this step
ReturnsTrue == ReturnStep /\ desired_record_handle # NoHandle

ReturnsFalse == ReturnStep /\ desired_record_handle = NoHandle

\* the records a step removes, counted over all lanes
Removed ==
  LET gone(l) == IF Len(queue'[l]) < Len(queue[l])
                   THEN Len(queue[l]) - Len(queue'[l]) ELSE 0
      sum[n \in 0..NumLanes] == IF n = 0 THEN 0 ELSE gone(n) + sum[n - 1]
  IN sum[NumLanes]

\* C15 (one commit per step): the step in which a call of _process_record
\* returns true removes exactly one record over all lanes; the step in which
\* it returns false, and every step of the scan before the return, removes
\* none.  A merge step is its scan followed by its return.
C15_OneCommitPerStep ==
  [][/\ ReturnsTrue => Removed = 1
     /\ ReturnsFalse => Removed = 0
     /\ (epc \in {"for_next", "compare"} /\ ~ReturnStep) => Removed = 0
    ]_vars

\* a merge step of the main loop has returned true and left records in every
\* lane
C15_Witness ==
  /\ epc = "loop_head"
  /\ phase = "main_loop"
  /\ dispatched # <<>>
  /\ \A l \in Lanes : queue[l] # <<>>

\* C16 (idle only when empty): a call of _process_record returns false only
\* when every peek of its scan found the lane empty; when at least one lane
\* yielded a head record the call returns true and dispatches a record,
\* whatever the record's timestamp, the maximum of the range included.
C16_IdleOnlyWhenEmpty ==
  [][/\ ReturnsFalse => peeked = {}
     /\ (ReturnStep /\ peeked # {}) =>
          (ReturnsTrue /\ Len(dispatched') = Len(dispatched) + 1)
    ]_vars

\* the scan of the running call of _process_record found every lane empty
FoundNoRecord == ReturnStep /\ peeked = {}

\* C17 (drain phase shape): once the loop head has read the stop request the
\* engine never sleeps; its next step begins a merge step, a merge step that
\* returns true is followed at once by the next merge step, and the thread
\* function ends in the step in which a merge step has found no record in any
\* lane, in no other.
C17_DrainShape ==
  [][/\ StopObserved => (epc # "sleep" /\ epc' # "sleep")
     /\ (epc = "exit" /\ epc' # epc) => epc' = "for_next"
     /\ (phase = "exit" /\ ReturnsTrue) => (epc' = "for_next" /\ idx' = 1)
     /\ (phase = "exit" /\ FoundNoRecord) => Terminated'
     /\ (Terminated' /\ ~Terminated) => (phase = "exit" /\ FoundNoRecord)
    ]_vars

\* ---- stop() against producers that never stop pushing ------------------------
\* The engine runs as after run(); one application thread calls stop(); the
\* producers push for as long as they like.  Their records are not written
\* to the histories pushed and dispatched, which would grow without end; at
\* most MaxPush records wait in the lanes at a time (the lanes are bounded
\* queues).

\* Producer l stamps a record from the clock and publishes it.
DrainPush(l) ==
  /\ crashed = "no"
  /\ SumLen(queue, NumLanes) < MaxPush
  /\ \E t \in Timestamps :
       /\ t >= clock
       /\ clock' = t
       /\ queue' = [queue EXCEPT ![l] = Append(@, t)]
  /\ UNCHANGED <<registry, stamped, pushed>>
  /\ UNCHANGED <<lifecycleVars, callerVars, scanVars, epc, phase, reserved,
                 dispatched, peeked, pre_stop, threads_created, crashed>>

\* lines 232-241 with the dispatch not written to the history
ProcessDesiredUnlogged ==
  /\ CommitDesired
  /\ dispatched' = dispatched

\* the application thread that calls stop()
Stopper == CHOOSE c \in Callers : TRUE

\* a step of the backend worker thread
WorkerStep ==
  \/ LoopHead
  \/ MainLoop
  \/ Exit
  \/ Sleep
  \/ ForTryPop
  \/ CompareNewMin
  \/ CompareRelease
  \/ ReturnFalse
  \/ ProcessDesiredUnlogged

\* a step of a stop() call that has been made
StopStep == StopCheck(Stopper) \/ StopJoin(Stopper)

NextDrain ==
  \/ \E l \in Lanes : DrainPush(l)
  \/ StopCall(Stopper)
  \/ StopCheck(Stopper)
  \/ StopJoin(Stopper)
  \/ LoopHead
  \/ MainLoop
  \/ Exit
  \/ Sleep
  \/ ForTryPop
  \/ CompareNewMin
  \/ CompareRelease
  \/ ReturnFalse
  \/ ProcessDesiredUnlogged

\* The scheduler runs the worker thread and the thread inside stop() again
\* and again; nothing is assumed of the producers or of when stop() is called.
SpecDrain ==
  /\ InitQuiescent
  /\ [][NextDrain]_vars
  /\ WF_vars(WorkerStep)
  /\ WF_vars(StopStep)

\* C18 (bounded drain): once stop() has cleared the run flag of a running
\* engine, the worker thread eventually terminates and the stop() call
\* eventually returns, whatever the producers do.
C18_BoundedDrain ==
  /\ (~is_running) ~> Terminated
  /\ (pc[Stopper] # "idle") ~> (pc[Stopper] = "idle")

\* the lanes with a Reserved slot
ReservedLanes == {l \in Lanes : reserved[l]}

\* the Handles the engine holds
HeldHandles ==
  {h \in {desired_record_handle, observed_record_handle} : h # NoHandle}

\* C19 (reserved-slot invariant): a lane's slot is Reserved exactly while the
\* engine holds a Handle on that lane, and the two Handles of the scan are
\* never on the same lane, so no lane has two outstanding Handles; the
\* observed Handle is valid only between its peek and its comparison, the
\* only other Handle held is the current best candidate; outside a scan,
\* that is after every return of _process_record and when a merge step
\* begins, no lane has a Reserved slot.
C19_ReservedSlots ==
  /\ ReservedLanes = {h[1] : h \in HeldHandles}
  /\ Cardinality(ReservedLanes) =
       Cardinality({i \in {"desired", "observed"} :
                      IF i = "desired" THEN desired_record_handle # NoHandle
                      ELSE observed_record_handle # NoHandle})
  /\ observed_record_handle # NoHandle => epc = "compare"
  /\ epc \notin {"for_next", "compare"} => ReservedLanes = {}
  /\ (epc = "for_next" /\ idx = 1) => ReservedLanes = {}
  /\ (epc = "for_next" /\ idx <= Len(cached_thread_contexts)) =>
       ~reserved[cached_thread_contexts[idx]]

\* mid-scan the engine holds the best candidate so far and the Handle it has
\* just peeked on another lane
C19_Witness ==
  /\ epc = "compare"
  /\ desired_record_handle # NoHandle
  /\ observed_record_handle # NoHandle
  /\ Cardinality(ReservedLanes) > 1

\* a call of _process_record begins in this step: from _main_loop, from the
\* head of _exit, or from the while of _exit after a call that returned true
StepBegins ==
  \/ epc \in {"main_loop", "exit"} /\ epc' = "for_next"
  \/ ReturnsTrue /\ epc' = "for_next"

\* C20 (snapshot per step): every merge step, of the main loop and of the
\* drain alike, begins with the snapshot the registry gives at that moment,
\* so the step scans every lane registered before it began.
C20_SnapshotPerStep ==
  [][StepBegins => cached_thread_contexts' = BackendThreadContextsCache']_vars

====
